---- MODULE Spec2Model ----
(***************************************************************************)
(* Model of src/main.py: a 3D audio waterfall.  Two activities share one   *)
(* deque (new_slice_queue): the output stream's callback (audio side)      *)
(* appends one spectrum per full block, and the canvas timer handler       *)
(* on_timer (render side) ages the slices, drains the queue into the       *)
(* bounded slice history and rebuilds the mesh.                            *)
(*                                                                         *)
(* Numbers are kept exact by the choice of units: dt is a whole number of  *)
(* time units, dB values are multiples of 20 so that y = dB * 0.05 is an   *)
(* integer, and the colormap input norm is kept in percent.                *)
(***************************************************************************)
EXTENDS Integers, Sequences, FiniteSets, TLC

\* ---------------------------------------------------------------- bounds
\* deque(maxlen=100) of the source, scaled down so that overflow is reached
MaxSlices == 3
\* longest audio file, in frames
MaxFrames == 8
\* the render clock (sum of all dt) stops advancing here: dt = 0 afterwards
MaxTime == 2
\* highest sample rate and highest blocks-per-second cadence tried for the
\* block size computation
MaxRate == 450
MaxCadence == 60

\* ------------------------------------------------------ program constants
Speed == 5
AmpScaleDiv == 20
DbSpan == 100
XExtent == 20
DesiredBlocksPerSec == 50

\* the audio files tried.  With 100 Hz raw_block is 2, with 200 Hz it is 4;
\* with MaxFrames - 1 or MaxFrames frames the last read is empty for one
\* block size and partial for the other.  The last file is mono.
Files ==
  { [samplerate |-> 100, frames |-> MaxFrames - 1, content |-> "silence",
     channels |-> 2],
    [samplerate |-> 100, frames |-> MaxFrames, content |-> "tone",
     channels |-> 2],
    [samplerate |-> 200, frames |-> MaxFrames - 1, content |-> "tone",
     channels |-> 2],
    [samplerate |-> 200, frames |-> MaxFrames, content |-> "silence",
     channels |-> 2],
    [samplerate |-> 100, frames |-> MaxFrames, content |-> "tone",
     channels |-> 1] }

\* the values event.dt takes, in time units (0: two ticks in the same unit)
DtSet == {0, 1}

VARIABLES
  mainPc,           \* main(): "dialog", "run" (app.run), "exit" (early return)
  samplerate,       \* the file's sample rate
  fileFrames,       \* the file's length in frames
  content,          \* what the file holds: "silence" or "tone"
  channels,         \* the file's channel count
  timerOn,          \* canvas._timer is started
  n_fft,            \* canvas.n_fft, computed in main
  freqs,            \* canvas.freqs
  slices,           \* canvas.slices: deque(maxlen) of vertex arrays
  slice_colors,     \* canvas.slice_colors: deque(maxlen) of color arrays
  new_slice_queue,  \* canvas.new_slice_queue: unbounded deque of spectra
  mesh,             \* what mesh.set_data was last given
  rPc,              \* position of on_timer
  fft_db,           \* on_timer's local: the spectrum popped
  audioPc,          \* audio_thread_func: "none","open","stream","closed","openfail"
  blocksize,        \* audio thread's blocksize
  filePos,          \* read position of the SoundFile
  cbPc,             \* callback: "idle", "analyze", "stopped", "raised"
  outdata,          \* the block last handed to the device
  \* history variables (not program state)
  delivered,        \* number of blocks handed to the device
  pushed,           \* every spectrum appended to the queue, in order
  consumed,         \* every spectrum turned into a slice, in order
  tickBase,         \* Len(consumed) when the current tick started
  clock,            \* sum of the dt of all ticks so far
  lastDt,           \* dt of the current tick
  trace,            \* steps taken by the current tick, in order
  seenQ             \* queue contents observed during the current tick

vars == <<mainPc, samplerate, fileFrames, content, channels, timerOn, n_fft, freqs, slices,
          slice_colors, new_slice_queue, mesh, rPc, fft_db, audioPc,
          blocksize, filePos, cbPc, outdata, delivered, pushed, consumed,
          tickBase, clock, lastDt, trace, seenQ>>

canvasVars == <<timerOn, n_fft, freqs>>
renderVars == <<slices, slice_colors, mesh, rPc, fft_db, consumed, tickBase,
                clock, lastDt, trace, seenQ>>
audioVars == <<audioPc, blocksize, filePos, cbPc, outdata, delivered>>
fileVars == <<samplerate, fileFrames, content, channels>>

\* ------------------------------------------------------------ pure helpers
Min(a, b) == IF a < b THEN a ELSE b

Clip(x, lo, hi) == IF x < lo THEN lo ELSE IF x > hi THEN hi ELSE x

RECURSIVE Pow2(_)
Pow2(k) == IF k = 0 THEN 1 ELSE 2 * Pow2(k - 1)

\* math.ceil(math.log(num / den, 2)) for num / den >= 1
RECURSIVE CeilLog2From(_, _, _)
CeilLog2From(num, den, k) ==
  IF den * Pow2(k) >= num THEN k ELSE CeilLog2From(num, den, k + 1)

\* mutant: the logarithm is rounded down instead of up
CeilLog2_Floor(num, den) ==
  LET k == CeilLog2From(num, den, 0)
  IN IF den * Pow2(k) = num \/ k = 0 THEN k ELSE k - 1

CeilLog2(num, den) == CeilLog2From(num, den, 0)

\* blocksize for a sample rate and a desired_blocks_per_sec
BlockSizeFor(sr, cadence) == Pow2(CeilLog2(sr, cadence))

\* blocksize = int(2 ** math.ceil(math.log(samplerate / desired, 2)))
BlockSizeOf(sr) == Pow2(CeilLog2(sr, DesiredBlocksPerSec))

\* n_fft = blocksize // 2 + 1
NFftOf(bs) == bs \div 2 + 1

\* np.linspace(0, stop, n)
Linspace(stop, n) ==
  [i \in 1..n |-> IF n = 1 THEN 0 ELSE ((i - 1) * stop) \div (n - 1)]

\* freqs = linspace(0, samplerate/2, n_fft) * (20.0 / (samplerate/2))
FreqsOf(sr, n) ==
  [i \in 1..n |-> (Linspace(sr \div 2, n)[i] * XExtent) \div (sr \div 2)]

\* len(np.fft.rfft(x)) for len(x) = n
RfftLen(n) == n \div 2 + 1

\* fft_db of the b-th block of the file, n frames long: hanning window,
\* |rfft|, 20*log10(. + 1e-6).  A silent block has every bin at the floor
\* 20*log10(1e-6) = -120; the "tone" file alternates a loud block (bin 1
\* above 0 dB, the others at -60 dB) with a silent one.
Analyze(kind, b, n) ==
  [i \in 1..RfftLen(n) |->
     IF kind = "silence" \/ b % 2 = 0 THEN -120
     ELSE IF i = 1 THEN 20 ELSE -60]

\* np.column_stack((freqs, fft_db * amp_scale, np.zeros_like(freqs)))
MakeVertices(fr, db) ==
  [i \in 1..Len(fr) |-> <<fr[i], db[i] \div AmpScaleDiv, 0>>]

\* mutant: the last bin is left out of the color computation
Norm_DropsBin(db) ==
  [i \in 1..(Len(db) - 1) |->
     IF db[i] + DbSpan < 0 THEN 0
     ELSE IF db[i] + DbSpan > DbSpan THEN DbSpan ELSE db[i] + DbSpan]

\* norm = np.clip((fft_db + 100) / 100, 0, 1), in percent
Norm(db) == [i \in 1..Len(db) |-> Clip(db[i] + DbSpan, 0, DbSpan)]

\* cmap.map(norm): one color per bin, a function of norm alone
CmapMap(norm) == [i \in 1..Len(norm) |-> <<"viridis", norm[i]>>]

\* mutant: appendleft, the new item goes to the old end of the history
DequeAppend_Left(d, x) ==
  IF Len(d) >= MaxSlices THEN <<x>> \o SubSeq(d, 1, Len(d) - 1)
  ELSE <<x>> \o d

\* mutant: a full history drops its newest item instead of its oldest
DequeAppend_DropNewest(d, x) ==
  IF Len(d) >= MaxSlices THEN Append(SubSeq(d, 1, Len(d) - 1), x)
  ELSE Append(d, x)

\* deque(maxlen=MaxSlices).append(x): a full deque drops its leftmost item
DequeAppend(d, x) ==
  IF Len(d) >= MaxSlices THEN Append(Tail(d), x) ELSE Append(d, x)

\* mutant: the scroll speed is left out of the advance
AdvanceArray_NoSpeed(v, dt) ==
  [i \in 1..Len(v) |-> <<v[i][1], v[i][2], v[i][3] + dt>>]

\* self.slices[i][:, 2] += self.speed * dt, for one vertex array
AdvanceArray(v, dt) ==
  [i \in 1..Len(v) |-> <<v[i][1], v[i][2], v[i][3] + Speed * dt>>]

\* mutant: slices that have receded beyond one speed unit are removed
AdvanceAll_DropsDeep(sl, dt) ==
  SelectSeq([k \in 1..Len(sl) |->
               [sl[k] EXCEPT !.v = [i \in 1..Len(sl[k].v) |->
                  <<sl[k].v[i][1], sl[k].v[i][2], sl[k].v[i][3] + Speed * dt>>]]],
            LAMBDA e : e.v[1][3] <= Speed)

\* mutant: the slices are advanced only on a tick that has new data waiting
AdvanceAll_OnNewData(sl, dt) ==
  IF new_slice_queue = <<>> THEN sl
  ELSE [k \in 1..Len(sl) |->
          [sl[k] EXCEPT !.v = [i \in 1..Len(sl[k].v) |->
             <<sl[k].v[i][1], sl[k].v[i][2], sl[k].v[i][3] + Speed * dt>>]]]

\* for i in range(len(self.slices)): self.slices[i][:, 2] += speed * dt
AdvanceAll(sl, dt) ==
  [k \in 1..Len(sl) |-> [sl[k] EXCEPT !.v = AdvanceArray(sl[k].v, dt)]]

RECURSIVE Vstack(_)
\* np.vstack(list of arrays)
Vstack(arrs) == IF arrs = <<>> THEN <<>> ELSE Head(arrs) \o Vstack(Tail(arrs))

Arrays(d) == [k \in 1..Len(d) |-> d[k].v]

NoSpectrum == [id |-> 0, db |-> <<>>]

\* -------------------------------------------------------------------- Init
Init ==
  /\ mainPc = "dialog"
  /\ \E f \in Files :
       /\ samplerate = f.samplerate
       /\ fileFrames = f.frames
       /\ content = f.content
       /\ channels = f.channels
  /\ timerOn = FALSE
  /\ n_fft = 0
  /\ freqs = <<>>
  /\ slices = <<>>
  /\ slice_colors = <<>>
  /\ new_slice_queue = <<>>
  /\ mesh = [vertices |-> <<>>, color |-> <<>>]
  /\ rPc = "idle"
  /\ fft_db = NoSpectrum
  /\ audioPc = "none"
  /\ blocksize = 0
  /\ filePos = 0
  /\ cbPc = "idle"
  /\ outdata = [data |-> 0, zeros |-> 0]
  /\ delivered = 0
  /\ pushed = <<>>
  /\ consumed = <<>>
  /\ tickBase = 0
  /\ clock = 0
  /\ lastDt = 0
  /\ trace = <<>>
  /\ seenQ = {}

\* -------------------------------------------------------------------- main
\* no file chosen, or sf.info raises: error dialog, return
MainFail ==
  /\ mainPc = "dialog"
  /\ mainPc' = "exit"
  /\ UNCHANGED <<fileVars, canvasVars, renderVars, audioVars,
                 new_slice_queue, pushed>>

\* sf.info succeeds: build the canvas (timer started), start the audio thread
MainStart ==
  /\ mainPc = "dialog"
  /\ mainPc' = "run"
  /\ n_fft' = NFftOf(BlockSizeOf(samplerate))
  /\ freqs' = FreqsOf(samplerate, n_fft')
  /\ timerOn' = TRUE
  /\ audioPc' = "open"
  /\ UNCHANGED <<fileVars, renderVars, blocksize, filePos, cbPc, outdata,
                 delivered, new_slice_queue, pushed>>

\* ------------------------------------------------------------ audio thread
\* sf.SoundFile(file_path) raises: print, return
AudioOpenFail ==
  /\ audioPc = "open"
  /\ audioPc' = "openfail"
  /\ UNCHANGED <<mainPc, fileVars, canvasVars, renderVars, blocksize, filePos,
                 cbPc, outdata, delivered, new_slice_queue, pushed>>

\* the file opens; blocksize is computed; the output stream starts
AudioOpen ==
  /\ audioPc = "open"
  /\ audioPc' = "stream"
  /\ blocksize' = BlockSizeOf(samplerate)
  /\ UNCHANGED <<mainPc, fileVars, canvasVars, renderVars, filePos, cbPc,
                 outdata, delivered, new_slice_queue, pushed>>

\* data = file.read(frames); n_read = len(data)
NRead == Min(blocksize, fileFrames - filePos)

\* callback, n_read < frames: copy, zero the rest, raise sd.CallbackStop
CbShort ==
  /\ audioPc = "stream"
  /\ cbPc = "idle"
  /\ NRead < blocksize
  /\ filePos' = filePos + NRead
  /\ outdata' = [data |-> NRead, zeros |-> blocksize - NRead]
  /\ delivered' = delivered + 1
  /\ cbPc' = "stopped"
  /\ UNCHANGED <<mainPc, fileVars, canvasVars, renderVars, audioPc, blocksize,
                 new_slice_queue, pushed>>

\* callback: file.read raises (I/O error, damaged file).  The callback has
\* no handler, so the exception leaves it; no further invocation follows.
CbReadError ==
  /\ audioPc = "stream"
  /\ cbPc = "idle"
  /\ cbPc' = "raised"
  /\ UNCHANGED <<mainPc, fileVars, canvasVars, renderVars, audioPc, blocksize,
                 filePos, outdata, delivered, new_slice_queue, pushed>>

\* callback, full read of a mono file: file.read gives a one-dimensional
\* array, so outdata[:] = data (or data[:, 0] when blocksize is 1) raises,
\* and the exception leaves the callback.
CbShapeError ==
  /\ audioPc = "stream"
  /\ cbPc = "idle"
  /\ channels = 1
  /\ NRead >= blocksize
  /\ filePos' = filePos + NRead
  /\ cbPc' = "raised"
  /\ UNCHANGED <<mainPc, fileVars, canvasVars, renderVars, audioPc, blocksize,
                 outdata, delivered, new_slice_queue, pushed>>

\* callback, full read: outdata[:] = data
CbFull ==
  /\ audioPc = "stream"
  /\ cbPc = "idle"
  /\ channels > 1
  /\ NRead >= blocksize
  /\ filePos' = filePos + NRead
  /\ outdata' = [data |-> NRead, zeros |-> 0]
  /\ cbPc' = "analyze"
  /\ UNCHANGED <<mainPc, fileVars, canvasVars, renderVars, audioPc, blocksize,
                 delivered, new_slice_queue, pushed>>

\* mutant: a soft cap, the callback drops the oldest queued spectrum
Push_DropOldest(q, s) ==
  IF Len(q) >= 2 THEN Append(Tail(q), s) ELSE Append(q, s)

\* mutant: a bounded queue that rejects a spectrum when two are waiting
Push_Bounded(q, s) == IF Len(q) >= 2 THEN q ELSE Append(q, s)

\* canvas.new_slice_queue.append(fft_db)
Push(q, s) == Append(q, s)

\* callback, after a full read: window, rfft, dB, append to the queue, return
CbPush ==
  /\ cbPc = "analyze"
  /\ LET s == [id |-> Len(pushed) + 1,
                db |-> Analyze(content, filePos \div blocksize, outdata.data)]
     IN /\ new_slice_queue' = Push(new_slice_queue, s)
        /\ pushed' = Append(pushed, s)
  /\ seenQ' = IF rPc = "idle" THEN seenQ ELSE seenQ \cup {new_slice_queue'}
  /\ delivered' = delivered + 1
  /\ cbPc' = "idle"
  /\ UNCHANGED <<mainPc, fileVars, canvasVars, slices, slice_colors, mesh, rPc,
                 fft_db, consumed, tickBase, clock, lastDt, trace, audioPc,
                 blocksize, filePos, outdata>>

\* sd.sleep ends, the with block closes the stream, file.close()
AudioClose ==
  /\ audioPc = "stream"
  /\ cbPc \in {"idle", "stopped", "raised"}
  /\ audioPc' = "closed"
  /\ UNCHANGED <<mainPc, fileVars, canvasVars, renderVars, blocksize, filePos,
                 cbPc, outdata, delivered, new_slice_queue, pushed>>

\* ---------------------------------------------------------------- on_timer
\* dt = event.dt; every slice's z grows by speed * dt
TickStart ==
  /\ timerOn
  /\ rPc = "idle"
  /\ \E dt \in DtSet :
       /\ clock + dt <= MaxTime
       /\ clock' = clock + dt
       /\ lastDt' = dt
       /\ slices' = AdvanceAll(slices, dt)
  /\ tickBase' = Len(consumed)
  /\ trace' = <<"advance">>
  /\ seenQ' = {new_slice_queue}
  /\ rPc' = "test"
  /\ UNCHANGED <<mainPc, fileVars, canvasVars, audioVars, slice_colors, mesh,
                 fft_db, consumed, new_slice_queue, pushed>>

\* mutant: the loop stops while one spectrum is still queued
QueueTest_LeavesOne(q) == Len(q) > 1

\* while self.new_slice_queue: the loop goes on when the deque is non-empty
QueueTest(q) == q # <<>>

\* mutant: the loop waits for a spectrum instead of ending on an empty queue
DrainTest_Waits ==
  /\ rPc = "test"
  /\ rPc' = IF QueueTest(new_slice_queue) THEN "pop" ELSE "test"
  /\ UNCHANGED <<mainPc, fileVars, canvasVars, audioVars, slices, slice_colors,
                 mesh, fft_db, consumed, tickBase, clock, lastDt, trace, seenQ,
                 new_slice_queue, pushed>>

\* the loop test: on to the pop, or out of the loop
DrainTest ==
  /\ rPc = "test"
  /\ rPc' = IF QueueTest(new_slice_queue) THEN "pop" ELSE "build"
  /\ UNCHANGED <<mainPc, fileVars, canvasVars, audioVars, slices, slice_colors,
                 mesh, fft_db, consumed, tickBase, clock, lastDt, trace, seenQ,
                 new_slice_queue, pushed>>

\* mutant: pop() takes the newest item instead of the oldest
Popleft_Right(q) == [item |-> q[Len(q)], rest |-> SubSeq(q, 1, Len(q) - 1)]

\* deque.popleft(): the item returned and the deque left behind
Popleft(q) == [item |-> Head(q), rest |-> Tail(q)]

\* fft_db = self.new_slice_queue.popleft()
DrainPop ==
  /\ rPc = "pop"
  /\ fft_db' = Popleft(new_slice_queue).item
  /\ new_slice_queue' = Popleft(new_slice_queue).rest
  /\ seenQ' = seenQ \cup {new_slice_queue'}
  /\ rPc' = "append"
  /\ UNCHANGED <<mainPc, fileVars, canvasVars, audioVars, slices, slice_colors,
                 mesh, consumed, tickBase, clock, lastDt, trace, pushed>>

\* the slice and the colors made of one spectrum
NewSlice(s) == [src |-> s.id, born |-> clock, v |-> MakeVertices(freqs, s.db)]

NewColors(s) == [src |-> s.id, v |-> CmapMap(Norm(s.db))]

\* mutant: the mesh is rebuilt inside the loop, after each append
DrainAppend_Rebuilds ==
  /\ rPc = "append"
  /\ slices' = DequeAppend(slices, NewSlice(fft_db))
  /\ slice_colors' = DequeAppend(slice_colors, NewColors(fft_db))
  /\ consumed' = Append(consumed, fft_db)
  /\ mesh' = [vertices |-> Vstack(Arrays(slices')),
              color |-> Vstack(Arrays(slice_colors'))]
  /\ trace' = trace \o <<"append", "rebuild">>
  /\ rPc' = "test"
  /\ UNCHANGED <<mainPc, fileVars, canvasVars, audioVars, fft_db,
                 tickBase, clock, lastDt, seenQ, new_slice_queue, pushed>>

\* mutant: a spectrum popped after playback has stopped is thrown away
DrainAppend_DropsAfterStop ==
  /\ rPc = "append"
  /\ IF cbPc = "stopped"
       THEN UNCHANGED <<slices, slice_colors, consumed, trace>>
       ELSE /\ slices' = DequeAppend(slices, NewSlice(fft_db))
            /\ slice_colors' = DequeAppend(slice_colors, NewColors(fft_db))
            /\ consumed' = Append(consumed, fft_db)
            /\ trace' = Append(trace, "append")
  /\ rPc' = "test"
  /\ UNCHANGED <<mainPc, fileVars, canvasVars, audioVars, mesh, fft_db,
                 tickBase, clock, lastDt, seenQ, new_slice_queue, pushed>>

\* vertices, norm, colors; slices.append, slice_colors.append
DrainAppend ==
  /\ rPc = "append"
  /\ slices' = DequeAppend(slices, NewSlice(fft_db))
  /\ slice_colors' = DequeAppend(slice_colors, NewColors(fft_db))
  /\ consumed' = Append(consumed, fft_db)
  /\ trace' = Append(trace, "append")
  /\ rPc' = "test"
  /\ UNCHANGED <<mainPc, fileVars, canvasVars, audioVars, mesh, fft_db,
                 tickBase, clock, lastDt, seenQ, new_slice_queue, pushed>>

\* mutant: the geometry is stacked newest slice first
Geometry_NewestFirst(sl, cl) ==
  LET Rev(d) == [k \in 1..Len(d) |-> d[Len(d) + 1 - k].v]
      RECURSIVE Cat(_)
      Cat(a) == IF a = <<>> THEN <<>> ELSE Head(a) \o Cat(Tail(a))
  IN [vertices |-> Cat(Rev(sl)), color |-> Cat(Rev(cl))]

\* np.vstack(self.slices), np.vstack(self.slice_colors)
Geometry(sl, cl) == [vertices |-> Vstack(Arrays(sl)), color |-> Vstack(Arrays(cl))]

\* mutant: the mesh is rebuilt only when the history holds several slices
Rebuild_SkipsSingle ==
  /\ rPc = "build"
  /\ IF Len(slices) > 1
       THEN /\ mesh' = Geometry(slices, slice_colors)
            /\ trace' = Append(trace, "rebuild")
       ELSE UNCHANGED <<mesh, trace>>
  /\ rPc' = "update"
  /\ UNCHANGED <<mainPc, fileVars, canvasVars, audioVars, slices, slice_colors,
                 fft_db, consumed, tickBase, clock, lastDt, seenQ,
                 new_slice_queue, pushed>>

\* if self.slices: mesh.set_data(vertices=..., color=...)
Rebuild ==
  /\ rPc = "build"
  /\ IF slices # <<>>
       THEN /\ mesh' = Geometry(slices, slice_colors)
            /\ trace' = Append(trace, "rebuild")
       ELSE UNCHANGED <<mesh, trace>>
  /\ rPc' = "update"
  /\ UNCHANGED <<mainPc, fileVars, canvasVars, audioVars, slices, slice_colors,
                 fft_db, consumed, tickBase, clock, lastDt, seenQ,
                 new_slice_queue, pushed>>

\* self.update(): request a redraw; the handler returns
Update ==
  /\ rPc = "update"
  /\ trace' = Append(trace, "update")
  /\ rPc' = "idle"
  /\ UNCHANGED <<mainPc, fileVars, canvasVars, audioVars, slices, slice_colors,
                 mesh, fft_db, consumed, tickBase, clock, lastDt, seenQ,
                 new_slice_queue, pushed>>

Render == TickStart \/ DrainTest \/ DrainPop \/ DrainAppend \/ Rebuild \/ Update

Next ==
  \/ MainFail
  \/ MainStart
  \/ AudioOpenFail
  \/ AudioOpen
  \/ CbShort
  \/ CbReadError
  \/ CbShapeError
  \/ CbFull
  \/ CbPush
  \/ AudioClose
  \/ TickStart
  \/ DrainTest
  \/ DrainPop
  \/ DrainAppend
  \/ Rebuild
  \/ Update

Spec == Init /\ [][Next]_vars

\* The block size computation alone, over every sample rate from the
\* cadence up to MaxRate: main computes n_fft for the canvas, the audio
\* thread computes blocksize for the stream.
SizeRates == DesiredBlocksPerSec..MaxRate

SizeInit ==
  /\ mainPc = "dialog"
  /\ samplerate \in SizeRates
  /\ fileFrames = 0
  /\ content = "silence"
  /\ channels = 2
  /\ timerOn = FALSE
  /\ n_fft = 0
  /\ freqs = <<>>
  /\ slices = <<>>
  /\ slice_colors = <<>>
  /\ new_slice_queue = <<>>
  /\ mesh = [vertices |-> <<>>, color |-> <<>>]
  /\ rPc = "idle"
  /\ fft_db = NoSpectrum
  /\ audioPc = "none"
  /\ blocksize = 0
  /\ filePos = 0
  /\ cbPc = "idle"
  /\ outdata = [data |-> 0, zeros |-> 0]
  /\ delivered = 0
  /\ pushed = <<>>
  /\ consumed = <<>>
  /\ tickBase = 0
  /\ clock = 0
  /\ lastDt = 0
  /\ trace = <<>>
  /\ seenQ = {}

SizeNext ==
  \/ MainFail
  \/ MainStart
  \/ AudioOpenFail
  \/ AudioOpen

SizeSpec == SizeInit /\ [][SizeNext]_vars

\* the event loop keeps dispatching the timer and its handler runs on
LiveSpec == Spec /\ WF_vars(Render)

\* ------------------------------------------------------------------ claims
\* the spectra the current tick has turned into slices so far
TickConsumed == SubSeq(consumed, tickBase + 1, Len(consumed))

\* C1: the history never holds more than MaxSlices slices, and the slices it
\* holds are exactly the most recently appended ones, in arrival order (so
\* every eviction removed the oldest slice).
C1_HistoryIsNewestInOrder ==
  /\ Len(slices) <= MaxSlices
  /\ Len(slices) = Min(Len(consumed), MaxSlices)
  /\ \A k \in 1..Len(slices) :
       slices[k].src = consumed[Len(consumed) - Len(slices) + k].id

\* C1 witness: one tick drained more than MaxSlices spectra and the history
\* is full.
C1_Witness ==
  /\ Len(consumed) - tickBase > MaxSlices
  /\ Len(slices) = MaxSlices
  /\ rPc = "idle"

\* C2 (as claimed): whenever the callback has finished an invocation, the
\* number of spectra pushed equals the number of blocks handed to the device.
C2_PushedEqualsDelivered ==
  cbPc \in {"idle", "stopped"} => Len(pushed) = delivered

\* C3: nothing is lost, duplicated or reordered between push and append: the
\* spectra appended so far, then the one popped and not yet appended, then the
\* queue, are together exactly the spectra pushed, in push order.
C3_ConsumedIsPrefixOfPushed ==
  LET inflight == IF rPc = "append" THEN <<fft_db>> ELSE <<>>
  IN /\ consumed \o inflight \o new_slice_queue = pushed
     /\ Len(consumed) <= Len(pushed)
     /\ \A k \in 1..Len(consumed) : consumed[k] = pushed[k]

\* C3 witness: within one tick the queue was seen empty, a push came in
\* after that, and the tick has already appended a slice.
C3_Witness ==
  /\ rPc = "test"
  /\ Len(consumed) > tickBase
  /\ new_slice_queue # <<>>
  /\ <<>> \in seenQ


\* C4 (as claimed): when the drain loop of a tick has ended, the spectra the
\* tick consumed were, at some instant of the tick, the whole content of the
\* queue.
C4_ConsumedWasQueueContent ==
  rPc = "build" => TickConsumed \in seenQ

\* C4 (amended): at the instant the loop test finds the queue empty, the
\* spectra the tick consumed are exactly the spectra pushed so far that no
\* earlier tick consumed, in push order, and the queue is empty; a tick that
\* consumed nothing appended no slice.
C4_DrainIsAtomicAtExit ==
  [][(rPc = "test" /\ rPc' = "build") =>
       /\ new_slice_queue = <<>>
       /\ TickConsumed = SubSeq(pushed, tickBase + 1, Len(pushed))
       /\ (TickConsumed = <<>> => trace = <<"advance">>)]_vars

\* C4 witness: a tick's loop has ended after consuming spectra that were
\* never all in the queue at the same time.
C4_Witness ==
  /\ rPc = "build"
  /\ new_slice_queue = <<>>
  /\ Len(TickConsumed) >= 2
  /\ TickConsumed \notin seenQ

\* C5: whenever the callback is at its push the push can be taken, whatever
\* the render tick is doing and however long the queue is, and taking it puts
\* the new spectrum at the tail of the queue and removes nothing.
C5_PushNeverBlocksNorFails ==
  /\ [](cbPc = "analyze" => ENABLED CbPush)
  /\ [][(cbPc = "analyze" /\ cbPc' = "idle") =>
          /\ Len(pushed') = Len(pushed) + 1
          /\ new_slice_queue' = Append(new_slice_queue, pushed'[Len(pushed')])]_vars

\* C5 witness: a push has landed while the tick was in the middle of its
\* drain loop and at least MaxSlices spectra were waiting.
C5_Witness ==
  /\ rPc \in {"pop", "append"}
  /\ Len(new_slice_queue) > MaxSlices
  /\ new_slice_queue[Len(new_slice_queue)] = pushed[Len(pushed)]
  /\ \E q \in seenQ : Len(q) < Len(new_slice_queue)

\* C6: at the end of a tick every vertex of every slice has depth speed times
\* the sum of the dt of the ticks that ran after the tick that appended the
\* slice; a slice appended in the tick that just ended has depth 0.
C6_DepthIsSpeedTimesAge ==
  rPc = "idle" =>
    \A k \in 1..Len(slices) :
      /\ \A i \in 1..Len(slices[k].v) :
           slices[k].v[i][3] = Speed * (clock - slices[k].born)
      /\ (\E j \in 1..Len(TickConsumed) : TickConsumed[j].id = slices[k].src)
           => \A i \in 1..Len(slices[k].v) : slices[k].v[i][3] = 0

\* C6 witness: at the end of a tick the history holds a slice aged over two
\* time units and a slice appended in this tick.
C6_Witness ==
  /\ rPc = "idle"
  /\ Len(slices) >= 2
  /\ slices[1].v[1][3] = Speed * 2
  /\ slices[Len(slices)].v[1][3] = 0
  /\ slices[Len(slices)].born = clock
  /\ Len(TickConsumed) >= 1

StepRank(step) ==
  CASE step = "advance" -> 1
    [] step = "append" -> 2
    [] step = "rebuild" -> 3
    [] step = "update" -> 4

\* C7: the steps of a tick come in the order advance, appends, rebuild,
\* redraw request: advance is first and happens once, no append follows a
\* rebuild, the redraw request is last, and when the redraw is requested the
\* mesh holds every slice appended in the tick.
C7_TickStepsInOrder ==
  /\ trace # <<>> => trace[1] = "advance"
  /\ \A i, j \in 1..Len(trace) :
       i < j => /\ StepRank(trace[i]) <= StepRank(trace[j])
                /\ (trace[i] = trace[j] => trace[i] = "append")
  /\ (rPc = "idle" /\ trace # <<>>) => trace[Len(trace)] = "update"
  /\ (rPc = "update" /\ slices # <<>>) =>
       /\ trace[Len(trace)] = "rebuild"
       /\ mesh.vertices = Vstack(Arrays(slices))

\* C7 witness: a finished tick that advanced, appended twice, rebuilt and
\* requested the redraw.
C7_Witness ==
  /\ rPc = "idle"
  /\ trace = <<"advance", "append", "append", "rebuild", "update">>

\* the x, y and source of every vertex array, without the depth
Flat(sl) ==
  [k \in 1..Len(sl) |->
     [src |-> sl[k].src,
      xy |-> [i \in 1..Len(sl[k].v) |-> <<sl[k].v[i][1], sl[k].v[i][2]>>]]]

\* C8: the advance of a tick adds speed*dt to the depth of every slice and
\* changes nothing else of the history; the steps of a tick other than an
\* append (so every step of a tick that finds the queue empty) leave the
\* history and the colors as they are.
C8_AdvanceMovesDepthOnly ==
  [][/\ (rPc = "idle" /\ rPc' = "test") =>
          /\ Flat(slices') = Flat(slices)
          /\ slice_colors' = slice_colors
          /\ \A k \in 1..Len(slices) : \A i \in 1..Len(slices[k].v) :
               slices'[k].v[i][3] = slices[k].v[i][3] + Speed * lastDt'
     /\ rPc \in {"test", "pop", "build", "update"} =>
          /\ slices' = slices
          /\ slice_colors' = slice_colors]_vars

\* C8 witness: a finished tick that found the queue empty, with dt > 0 and a
\* slice in the history.
C8_Witness ==
  /\ rPc = "idle"
  /\ trace = <<"advance", "rebuild", "update">>
  /\ lastDt > 0
  /\ slices # <<>>
  /\ slices[1].v[1][3] > 0

\* C9: the rebuild leaves the history as it is and, when the history is not
\* empty, gives the mesh Len(slices) * n_fft vertices and as many colors,
\* block k of both being the k-th oldest slice.
C9_GeometryIsConcatenation ==
  [][(rPc = "build" /\ rPc' = "update") =>
       /\ slices' = slices
       /\ slice_colors' = slice_colors
       /\ slices # <<>> =>
            /\ Len(mesh'.vertices) = Len(slices) * n_fft
            /\ Len(mesh'.color) = Len(slices) * n_fft
            /\ \A k \in 1..Len(slices) :
                 /\ SubSeq(mesh'.vertices, (k - 1) * n_fft + 1, k * n_fft)
                      = slices[k].v
                 /\ SubSeq(mesh'.color, (k - 1) * n_fft + 1, k * n_fft)
                      = slice_colors[k].v]_vars

\* C9 witness: the mesh was just rebuilt from a full history whose oldest and
\* newest slices differ.
C9_Witness ==
  /\ rPc = "update"
  /\ Len(slices) = MaxSlices
  /\ slices[1].v # slices[Len(slices)].v
  /\ Len(mesh.vertices) = MaxSlices * n_fft

\* C10: every spectrum pushed is eventually appended to the history, also
\* one still queued when playback has stopped.
C10_PushedIsEventuallyAppended ==
  \A k \in 1..MaxFrames : (Len(pushed) >= k) ~> (Len(consumed) >= k)

\* C10 witness: playback has stopped with spectra still queued and the tick
\* is appending one of them.
C10_Witness ==
  /\ cbPc = "stopped"
  /\ rPc = "append"
  /\ new_slice_queue # <<>>


\* C11 (as claimed): when the file could not be opened, in main or in the
\* audio thread, no render timer runs, no tick has run, no stream was opened
\* and nothing was pushed or appended.
C11_FailedOpenNeverStarts ==
  (mainPc = "exit" \/ audioPc = "openfail") =>
    /\ ~timerOn
    /\ rPc = "idle" /\ trace = <<>>
    /\ blocksize = 0 /\ delivered = 0
    /\ pushed = <<>> /\ consumed = <<>>

\* C12 (as claimed): no error raised inside the audio callback leaves the
\* callback as an exception.
C12_NoExceptionLeavesCallback ==
  cbPc # "raised"


RECURSIVE IsPow2(_)
IsPow2(b) == b = 1 \/ (b > 1 /\ b % 2 = 0 /\ IsPow2(b \div 2))

\* b is the smallest power of two that is >= sr / cadence
SmallestPow2AtLeast(b, sr, cadence) ==
  /\ IsPow2(b)
  /\ b * cadence >= sr
  /\ b > 1 => (b \div 2) * cadence < sr

\* C13: for every sample rate with samplerate / cadence >= 1 the blocksize
\* of the audio thread is the smallest power of two >= samplerate / cadence,
\* at the program's cadence and at every other cadence up to MaxCadence;
\* the n_fft main gave the canvas is blocksize // 2 + 1, and the spectrum
\* of a full block has as many bins as the canvas's frequency axis.
C13_BlockSizeIsSmallestPowerOfTwo ==
  /\ \A c \in 1..MaxCadence :
       samplerate >= c => SmallestPow2AtLeast(BlockSizeFor(samplerate, c), samplerate, c)
  /\ audioPc = "stream" =>
       /\ SmallestPow2AtLeast(blocksize, samplerate, DesiredBlocksPerSec)
       /\ n_fft = blocksize \div 2 + 1
       /\ Len(freqs) = n_fft
       /\ Len(Analyze(content, 1, blocksize)) = Len(freqs)

\* C13 witness: the stream is open for a sample rate that is the cadence
\* times a power of two, with that power as blocksize.
C13_Witness ==
  /\ audioPc = "stream"
  /\ samplerate = 8 * DesiredBlocksPerSec
  /\ blocksize = 8
  /\ n_fft = 5


\* q2 is q1 with nothing or one item added at the tail
ExtendsAtTail(q1, q2) ==
  /\ Len(q1) <= Len(q2)
  /\ Len(q2) <= Len(q1) + 1
  /\ SubSeq(q2, 1, Len(q1)) = q1

\* C14: a step of the callback leaves the slice history, the color history
\* and the mesh alone and at most adds one item at the tail of the queue;
\* whatever changes the histories or the mesh, or takes from the queue, is a
\* step of the render tick.
C14_CallbackTouchesOnlyQueueTail ==
  [][/\ cbPc' # cbPc =>
          /\ slices' = slices
          /\ slice_colors' = slice_colors
          /\ mesh' = mesh
          /\ ExtendsAtTail(new_slice_queue, new_slice_queue')
     /\ (\/ slices' # slices
         \/ slice_colors' # slice_colors
         \/ mesh' # mesh
         \/ ~ExtendsAtTail(new_slice_queue, new_slice_queue')) => rPc' # rPc]_vars

\* C14 witness: the callback has just pushed while the history and the mesh
\* hold slices and the tick is in its drain loop.
C14_Witness ==
  /\ cbPc = "idle"
  /\ rPc = "pop"
  /\ Len(new_slice_queue) >= 2
  /\ new_slice_queue[Len(new_slice_queue)] = pushed[Len(pushed)]
  /\ slices # <<>>
  /\ mesh.vertices # <<>>


\* C15: at the end of a tick the depth does not increase from the oldest
\* slice to the newest one, so the oldest slice is the deepest.
C15_DepthDecreasesWithIndex ==
  rPc = "idle" =>
    \A i, j \in 1..Len(slices) :
      i < j => \A a \in 1..Len(slices[i].v), b \in 1..Len(slices[j].v) :
                 slices[i].v[a][3] >= slices[j].v[b][3]

\* C15 witness: at the end of a tick the history holds three slices, the
\* first deeper than the second, the second as deep as the third.
C15_Witness ==
  /\ rPc = "idle"
  /\ Len(slices) >= 3
  /\ slices[1].v[1][3] > slices[2].v[1][3]
  /\ slices[2].v[1][3] = slices[3].v[1][3]

\* C16: at the end of a tick the two histories have the same length, entry
\* k of each was made of the same pushed spectrum, and every entry has n_fft
\* rows.
C16_HistoriesInLockStep ==
  rPc = "idle" =>
    /\ Len(slices) = Len(slice_colors)
    /\ \A k \in 1..Len(slices) :
         /\ slices[k].src = slice_colors[k].src
         /\ slices[k].src \in 1..Len(pushed)
         /\ Len(slices[k].v) = n_fft
         /\ Len(slice_colors[k].v) = n_fft
         /\ slice_colors[k].v = CmapMap(Norm(pushed[slices[k].src].db))
         /\ \A i \in 1..n_fft :
              /\ slices[k].v[i][1] = freqs[i]
              /\ slices[k].v[i][2] = pushed[slices[k].src].db[i] \div AmpScaleDiv

\* C16 witness: at the end of a tick both histories are full, the first
\* spectrum has been evicted from both, and two entries differ in color.
C16_Witness ==
  /\ rPc = "idle"
  /\ Len(slices) = MaxSlices
  /\ Len(slice_colors) = MaxSlices
  /\ slices[1].src > 1
  /\ slice_colors[1].v # slice_colors[2].v


\* C17 (as claimed): a slice that stays in the history keeps its index, and
\* with it its block position in the concatenated geometry, at every step.
C17_BlockPositionFixed ==
  [][\A k \in 1..Len(slices), j \in 1..Len(slices') :
       slices[k].src = slices'[j].src => j = k]_vars

\* C17 (amended): a slice that stays in the history keeps its place among
\* the surviving slices; its index is unchanged by a step that evicts
\* nothing, and goes down by one when the oldest slice is evicted, which
\* happens only on an append to a full history.
C17_RelativePositionKept ==
  [][LET gone == {k \in 1..Len(slices) :
                    \A j \in 1..Len(slices') : slices'[j].src # slices[k].src}
     IN /\ \A k \in 1..Len(slices), j \in 1..Len(slices') :
             slices[k].src = slices'[j].src => j = k - Cardinality(gone)
        /\ gone # {} => /\ gone = {1}
                        /\ Len(slices) = MaxSlices
                        /\ Len(slices') = MaxSlices
                        /\ rPc = "append"]_vars

\* C17 witness: the mesh was rebuilt from a full history whose first block
\* is the second spectrum, which was in the second block before the first
\* spectrum was evicted.
C17_Witness ==
  /\ rPc = "update"
  /\ Len(slices) = MaxSlices
  /\ slices[1].src = 2
  /\ mesh.vertices = Vstack(Arrays(slices))
  /\ SubSeq(mesh.vertices, 1, n_fft) = slices[1].v


\* C18: the history never gets shorter (so once non-empty it stays
\* non-empty), and at the end of every tick the data last given to the mesh
\* is the concatenation of the current history.
C18_MeshShowsCurrentHistory ==
  /\ [][Len(slices') >= Len(slices) /\ Len(slice_colors') >= Len(slice_colors)]_vars
  /\ [](rPc = "idle" => mesh = Geometry(slices, slice_colors))

\* C18 witness: a tick that found no new spectrum has ended; the history
\* is full, has evicted a slice before, and the mesh holds it at its new
\* depths.
C18_Witness ==
  /\ rPc = "idle"
  /\ trace = <<"advance", "rebuild", "update">>
  /\ lastDt > 0
  /\ Len(slices) = MaxSlices
  /\ slices[1].src > 1
  /\ mesh = Geometry(slices, slice_colors)


\* C19: every tick that has entered its drain loop reaches its redraw
\* request and ends.  The pops are finite because the pushes are: a step
\* pushes at most one spectrum, the spectra pushed never cover more frames
\* than the file holds, and nothing is pushed once the callback has stopped.
C19_TickTerminates ==
  /\ (rPc = "test") ~> (rPc = "update")
  /\ (rPc # "idle") ~> (rPc = "idle")
  /\ [](Len(pushed) * blocksize <= fileFrames)
  /\ [][/\ Len(pushed') <= Len(pushed) + 1
        /\ cbPc = "stopped" => pushed' = pushed]_vars

\* C19 witness: a tick has ended that consumed spectra pushed while its
\* drain loop was running.
C19_Witness ==
  /\ rPc = "idle"
  /\ Len(TickConsumed) >= 2
  /\ TickConsumed \notin seenQ

\* playback has stopped, nothing is queued and nothing is in flight
Drained ==
  /\ cbPc = "stopped"
  /\ new_slice_queue = <<>>
  /\ rPc \notin {"pop", "append"}

\* C20: once the callback has signalled stop nothing more is pushed; a drain
\* loop that ends after the stop leaves the queue empty, which every stop
\* leads to; from then on the queue stays empty and the slices in the
\* history and their order never change, while every tick adds speed*dt to
\* their depths.
C20_QuiescentAfterStop ==
  /\ [][cbPc = "stopped" => (cbPc' = "stopped" /\ pushed' = pushed)]_vars
  /\ [][(cbPc = "stopped" /\ rPc = "test" /\ rPc' = "build") => Drained']_vars
  /\ [][Drained =>
          /\ Drained'
          /\ Flat(slices') = Flat(slices)
          /\ slice_colors' = slice_colors
          /\ (rPc = "idle" /\ rPc' = "test") =>
               \A k \in 1..Len(slices) : \A i \in 1..Len(slices[k].v) :
                 slices'[k].v[i][3] = slices[k].v[i][3] + Speed * lastDt']_vars
  /\ (cbPc = "stopped") ~> Drained

\* C20 witness: after the stop and the last drain a tick that consumed
\* nothing has ended, and the newest slice has moved away from depth 0.
C20_Witness ==
  /\ Drained
  /\ rPc = "idle"
  /\ Len(TickConsumed) = 0
  /\ lastDt > 0
  /\ slices # <<>>
  /\ slices[Len(slices)].v[1][3] > 0
  /\ Len(consumed) = Len(pushed)

====
